---- MODULE Spec2Model ----
(***************************************************************************)
(* Model of src/main.rs: the vanity address search.  The main thread       *)
(* builds the shared state (found_keypairs behind a Mutex, the attempts    *)
(* counter, the completed flag), spawns the progress thread, runs one      *)
(* closure per index of 0..num_threads on the rayon pool, and after the    *)
(* parallel loop returns stores completed, reads attempts, locks           *)
(* found_keypairs and prints.                                              *)
(*                                                                         *)
(* Strings are sequences of one-character strings.  Every access to an     *)
(* atomic (load, store, fetch_add) and every mutex operation is one step.  *)
(* The atomics are accessed with Ordering::Relaxed; each is a single       *)
(* location, modelled as one register whose loads return the latest store. *)
(***************************************************************************)
EXTENDS Integers, Sequences, FiniteSets, TLC

\* ------------------------------------------------------------------ bounds

\* largest --threads value explored
MaxThreads == 2
\* largest --quantity value explored
MaxQuantity == 2
\* candidates that miss the criteria are drawn only while attempts is below this
MaxAttempts == 2
MaxText == 2          \* characters in an address body, a prefix or a suffix given to matches_criteria on its own

\* ------------------------------------------------------------ text helpers

HexDigits == <<"0", "1", "2", "3", "4", "5", "6", "7", "8", "9",
               "a", "b", "c", "d", "e", "f">>

\* char::to_lowercase on the characters that occur in hexadecimal text
LowerChar(c) ==
    CASE c = "A" -> "a"
      [] c = "B" -> "b"
      [] c = "C" -> "c"
      [] c = "D" -> "d"
      [] c = "E" -> "e"
      [] c = "F" -> "f"
      [] OTHER -> c

\* str::to_lowercase
to_lowercase(s) == [i \in 1..Len(s) |-> LowerChar(s[i])]

\* str::starts_with
starts_with(s, p) == Len(p) <= Len(s) /\ SubSeq(s, 1, Len(p)) = p

\* str::ends_with
ends_with(s, p) == Len(p) <= Len(s) /\ SubSeq(s, Len(s) - Len(p) + 1, Len(s)) = p

\* format!("{:x}", H160): two lowercase hex digits per byte
LowerHex(bytes) ==
    [i \in 1..(2 * Len(bytes)) |->
        IF i % 2 = 1 THEN HexDigits[(bytes[(i + 1) \div 2] \div 16) + 1]
                     ELSE HexDigits[(bytes[i \div 2] % 16) + 1]]

\* Option<String>
None == [is_some |-> FALSE, value |-> <<>>]
Some(s) == [is_some |-> TRUE, value |-> s]

\* ------------------------------------------------------- key derivation

\* length of a Keccak256 digest in bytes, and where the address starts in it
HashLen == 32
AddressOffset == 12

\* the --prefix / --suffix pairs explored: no criteria, and both given
Criteria == {[prefix |-> None, suffix |-> None],
             [prefix |-> Some(<<"A", "B">>), suffix |-> Some(<<"a", "b">>)]}

\* the digests explored: Keccak256 is not computed, the digest of a public key
\* is any of these byte strings (the first and the last address byte vary)
Digest(hi, lo) ==
    [i \in 1..HashLen |->
        IF i <= AddressOffset THEN 255
        ELSE IF i = AddressOffset + 1 THEN hi
        ELSE IF i = HashLen THEN lo
        ELSE 0]
Digests == {Digest(171, 171), Digest(171, 0), Digest(0, 171)}

\* line 42: serialize_uncompressed gives 65 bytes, the format byte 0x04 and the two coordinates
PublicKeyLen == 65
FormatByte == 4

PublicKey(x, y) ==
    [i \in 1..PublicKeyLen |->
        IF i = 1 THEN FormatByte
        ELSE IF i = 2 THEN x
        ELSE IF i = PublicKeyLen THEN y
        ELSE 0]
PublicKeys == {PublicKey(4, 7), PublicKey(7, 4)}

\* line 43: the bytes handed to Keccak256::digest, &public_key_bytes[1..]
digest_input_Whole(public_key_bytes) == public_key_bytes

digest_input(public_key_bytes) == SubSeq(public_key_bytes, 2, Len(public_key_bytes))

\* SecretKey::new(&mut OsRng): the scalars explored
SecretKeys == {1}

\* generate_key_pair (lines 38-50), given the scalar drawn and the digest of its public key
generate_key_pair_HighBytes(secret_key, public_key_hash) ==
    [private_key |-> secret_key,
     address |-> <<"0", "x">> \o LowerHex(SubSeq(public_key_hash, 1, HashLen - AddressOffset))]

generate_key_pair(secret_key, public_key_hash) ==
    [private_key |-> secret_key,
     address |-> <<"0", "x">> \o LowerHex(SubSeq(public_key_hash, AddressOffset + 1, HashLen))]

\* the candidates generate_key_pair returns
KeyPairs == {generate_key_pair(k, h) : k \in SecretKeys, h \in Digests}

\* the worker's keypair binding outside an iteration
NoKeyPair == [private_key |-> 0, address |-> <<>>]

\* ------------------------------------------------------- matches_criteria

\* a matcher that forgets the suffix
matches_criteria_PrefixOnly(address, prefix, suffix) ==
    prefix.is_some =>
        starts_with(to_lowercase(SubSeq(address, 3, Len(address))), to_lowercase(prefix.value))

\* a matcher for which an absent prefix matches nothing
matches_criteria_PrefixRequired(address, prefix, suffix) ==
    /\ prefix.is_some
    /\ starts_with(to_lowercase(SubSeq(address, 3, Len(address))), to_lowercase(prefix.value))

matches_criteria_CaseSensitive(address, prefix, suffix) ==
    LET addr_without_prefix == SubSeq(address, 3, Len(address))
    IN  /\ prefix.is_some => starts_with(addr_without_prefix, prefix.value)
        /\ suffix.is_some => ends_with(addr_without_prefix, suffix.value)

matches_criteria(address, prefix, suffix) ==
    LET addr_without_prefix == SubSeq(address, 3, Len(address))
    IN  /\ prefix.is_some =>
              starts_with(to_lowercase(addr_without_prefix), to_lowercase(prefix.value))
        /\ suffix.is_some =>
              ends_with(to_lowercase(addr_without_prefix), to_lowercase(suffix.value))

\* matches_criteria(&keypair.address, &args.prefix, &args.suffix) on line 136,
\* tabulated over the criteria and the candidates explored
Matching ==
    [c \in Criteria |->
        {kp \in KeyPairs : matches_criteria(kp.address, c.prefix, c.suffix)}]

\* ------------------------------------------------------------------ state

VARIABLES
    args,             \* the parsed Args: prefix, suffix, quantity
    num_threads,      \* args.threads.unwrap_or_else(num_cpus::get)
    found_keypairs,   \* the Vec<KeyPair> inside the Mutex
    mutex,            \* the thread holding the Mutex, or Free
    attempts,         \* AtomicU64
    completed,        \* AtomicBool
    mpc,              \* main thread: position
    total_attempts,   \* main thread: the value loaded on line 160
    ppc,              \* progress thread: position
    current_attempts, \* progress thread: the value loaded on line 112
    found_count,      \* progress thread: the length read on line 115
    wpc,              \* per closure of the parallel loop: position
    keypair,          \* per closure: the candidate of the current iteration
    derived,          \* per closure: number of candidates it has derived (instrumentation)
    stop_log,         \* every store of true into completed: who, and attempts then (instrumentation)
    push_log,         \* every push: which closure, and which of its candidates (instrumentation)
    poll_pairs,       \* the pairs <<attempts, found.len()>> held since the load of line 112 (instrumentation)
    call,             \* a call of one of the two functions on its own: the function and its arguments
    ret               \* the value that call returned

vars == <<args, num_threads, found_keypairs, mutex, attempts, completed, mpc,
          total_attempts, ppc, current_attempts, found_count, wpc, keypair,
          derived, stop_log, push_log, poll_pairs, call, ret>>

\* what the run of main leaves alone: the functions called on their own
calls == <<call, ret>>

shared == <<found_keypairs, mutex, attempts, completed, stop_log>>
config == <<args, num_threads>>
main_vars == <<mpc, total_attempts>>
progress_vars == <<ppc, current_attempts, found_count>>
worker_vars == <<wpc, keypair, derived>>

\* the closures of (0..num_threads).into_par_iter()
Workers == 1..num_threads

\* no function is called on its own during the run of main
NoCall == [fn |-> "none"]

\* mutex holders
Free == <<>>
MainThread == <<"main">>
ProgressThread == <<"progress">>
WorkerThread(w) == <<"worker", w>>

\* a counter of one bit
fetch_add_Wrap(a) == (a + 1) % 2

\* a counter whose increment is lost
fetch_add_Lost(a) == a

\* attempts.fetch_add(1, Ordering::Relaxed): one atomic read-modify-write
\* (an AtomicU64: it cannot wrap within the attempts explored)
fetch_add(a) == a + 1

\* a push that does not look at the length
below_quantity_Unchecked(found, quantity) == TRUE

\* found.len() < args.quantity
below_quantity(found, quantity) == Len(found) < quantity

\* a store of false
store_value_False == FALSE

\* a store that flips the flag
store_value_Toggle == ~completed

\* the value of completed.store(true, Ordering::Relaxed)
store_value == TRUE

\* a comparison that misses equality
reached_quantity_Strict(found, quantity) == Len(found) > quantity

\* found.len() >= args.quantity
reached_quantity(found, quantity) == Len(found) >= quantity

\* a parallel loop that returns with the first closure that returns
for_each_finished_First(pcs) == \E w \in DOMAIN pcs : pcs[w] = "done"

\* for_each returns when every closure has returned
for_each_finished(pcs) == \A w \in DOMAIN pcs : pcs[w] = "done"

\* lines 115, 137, 163: Mutex::lock returns once no thread holds the guard
unlocked_Always(m) == TRUE

unlocked(m) == m = Free

\* line 112: AtomicU64::load leaves the counter as it is
load_Swap(a) == 0

load(a) == a

\* line 129: the loop breaks when the flag it loaded is set
break_if_Unset(flag) == ~flag

break_if(flag) == flag

\* line 141: Vec::push puts the key pair at the end
push_Front(found, kp) == <<kp>> \o found

push(found, kp) == Append(found, kp)

\* The pairs <<attempts, found.len()>> the shared state has held since the
\* progress thread loaded attempts on line 112, until it has read the length
\* on line 115: a is the counter and n the length after the step that calls it.
Held(a, n) ==
    IF ppc \in {"lock", "len"} THEN poll_pairs \cup {<<a, n>>} ELSE poll_pairs

Init ==
    /\ \E c \in Criteria, q \in 0..MaxQuantity :
          args = [prefix |-> c.prefix, suffix |-> c.suffix, quantity |-> q]
    /\ num_threads \in 0..MaxThreads
    /\ found_keypairs = <<>>
    /\ mutex = Free
    /\ attempts = 0
    /\ completed = FALSE
    /\ mpc = "spawn"
    /\ total_attempts = 0
    /\ ppc = "unspawned"
    /\ current_attempts = 0
    /\ found_count = 0
    /\ wpc = [w \in Workers |-> "pending"]
    /\ keypair = [w \in Workers |-> NoKeyPair]
    /\ derived = [w \in Workers |-> 0]
    /\ stop_log = <<>>
    /\ push_log = <<>>
    /\ poll_pairs = {}
    /\ call = NoCall
    /\ ret = NoCall

\* ------------------------------------------------------------ main thread

\* line 104: std::thread::spawn of the progress thread
MSpawn ==
    /\ mpc = "spawn"
    /\ mpc' = "for_each"
    /\ ppc' = "sleep"
    /\ UNCHANGED <<shared, config, calls, push_log, poll_pairs, total_attempts, current_attempts, found_count, worker_vars>>

\* lines 121-152: for_each blocks until every closure has returned
MJoin ==
    /\ mpc = "for_each"
    /\ for_each_finished(wpc)
    /\ mpc' = "store"
    /\ UNCHANGED <<shared, config, calls, push_log, poll_pairs, total_attempts, progress_vars, worker_vars>>

\* line 155: completed.store(true)
MStore ==
    /\ mpc = "store"
    /\ completed' = store_value
    /\ stop_log' = Append(stop_log, [by |-> MainThread, at |-> attempts])
    /\ mpc' = "load"
    /\ UNCHANGED <<found_keypairs, mutex, attempts, config, calls, push_log, poll_pairs, total_attempts,
                   progress_vars, worker_vars>>

\* line 160: attempts.load
MLoad ==
    /\ mpc = "load"
    /\ total_attempts' = attempts
    /\ mpc' = "lock"
    /\ UNCHANGED <<shared, config, calls, push_log, poll_pairs, progress_vars, worker_vars>>

\* line 163: found_keypairs.lock()
MLock ==
    /\ mpc = "lock"
    /\ unlocked(mutex)
    /\ mutex' = MainThread
    /\ mpc' = "print"
    /\ UNCHANGED <<found_keypairs, attempts, completed, stop_log, config, calls, push_log, poll_pairs,
                   total_attempts, progress_vars, worker_vars>>

\* lines 165-181: print, drop the guard, leave main (the process ends)
MPrint ==
    /\ mpc = "print"
    /\ mutex' = Free
    /\ mpc' = "exit"
    /\ UNCHANGED <<found_keypairs, attempts, completed, stop_log, config, calls, push_log, poll_pairs,
                   total_attempts, progress_vars, worker_vars>>

\* -------------------------------------------------------- progress thread
\* The thread is detached: it runs until it breaks out of its loop or the
\* process ends with main.

\* lines 106-110: sleep, then completed.load
PCheck ==
    /\ ppc = "sleep"
    /\ mpc # "exit"
    /\ ppc' = IF completed THEN "exited" ELSE "load"
    /\ UNCHANGED <<shared, config, calls, push_log, poll_pairs, main_vars, current_attempts, found_count, worker_vars>>

\* line 112: attempts.load
PLoad ==
    /\ ppc = "load"
    /\ mpc # "exit"
    /\ current_attempts' = attempts
    /\ attempts' = load(attempts)
    /\ poll_pairs' = {<<attempts, Len(found_keypairs)>>}
    /\ ppc' = "lock"
    /\ UNCHANGED <<found_keypairs, mutex, completed, stop_log, config, calls, push_log,
                   main_vars, found_count, worker_vars>>

\* line 115: found_keypairs.lock()
PLock ==
    /\ ppc = "lock"
    /\ mpc # "exit"
    /\ unlocked(mutex)
    /\ mutex' = ProgressThread
    /\ ppc' = "len"
    /\ UNCHANGED <<found_keypairs, attempts, completed, stop_log, config, calls, push_log, poll_pairs, main_vars,
                   current_attempts, found_count, worker_vars>>

\* line 115: .len(), and the temporary guard is dropped at the end of the statement
PLen ==
    /\ ppc = "len"
    /\ mpc # "exit"
    /\ found_count' = Len(found_keypairs)
    /\ mutex' = Free
    /\ ppc' = "msg"
    /\ UNCHANGED <<found_keypairs, attempts, completed, stop_log, config, calls, push_log, poll_pairs, main_vars,
                   current_attempts, worker_vars>>

\* line 116: set_message; the locals go out of scope and the loop starts over
PMessage ==
    /\ ppc = "msg"
    /\ mpc # "exit"
    /\ current_attempts' = 0
    /\ found_count' = 0
    /\ poll_pairs' = {}
    /\ ppc' = "sleep"
    /\ UNCHANGED <<shared, config, calls, push_log, main_vars, worker_vars>>

\* ------------------------------------------------ closures of the parallel loop

\* lines 122-125: a pool thread takes the closure up, while main is in for_each
WStart(w) ==
    /\ mpc = "for_each"
    /\ wpc[w] = "pending"
    /\ wpc' = [wpc EXCEPT ![w] = "check"]
    /\ UNCHANGED <<shared, config, calls, push_log, poll_pairs, main_vars, progress_vars, keypair, derived>>

\* lines 129-131: completed.load, break when set
WCheck(w) ==
    /\ wpc[w] = "check"
    /\ wpc' = [wpc EXCEPT ![w] = IF break_if(completed) THEN "done" ELSE "generate"]
    /\ UNCHANGED <<shared, config, calls, push_log, poll_pairs, main_vars, progress_vars, keypair, derived>>

\* While a candidate may still be drawn.  Candidates that miss the criteria
\* are drawn only while attempts < MaxAttempts.  Matching candidates are drawn
\* beyond that: with quantity >= 1 at most quantity of them are pushed and each
\* closure draws at most one more that is not, so the second cap is never
\* reached (CapNeverBinds); it ends the runs with quantity 0, which store nothing.
MayDraw(hit) ==
    IF hit THEN attempts < MaxAttempts + args.quantity + num_threads
           ELSE attempts < MaxAttempts

\* lines 133-136: generate_key_pair, attempts.fetch_add(1), matches_criteria.
\* Deriving and matching touch nothing shared, so the iteration up to the
\* lock is one step around the fetch_add; on a miss the candidate is dropped
\* and the loop starts over.
WAttempt(w) ==
    /\ wpc[w] = "generate"
    /\ \E kp \in KeyPairs :
          LET hit == kp \in Matching[[prefix |-> args.prefix, suffix |-> args.suffix]]
          IN  /\ MayDraw(hit)
              /\ keypair' = [keypair EXCEPT ![w] = IF hit THEN kp ELSE NoKeyPair]
              /\ wpc' = [wpc EXCEPT ![w] = IF hit THEN "lock" ELSE "check"]
    /\ derived' = [derived EXCEPT ![w] = @ + 1]
    /\ attempts' = fetch_add(attempts)
    /\ poll_pairs' = Held(attempts', Len(found_keypairs))
    /\ UNCHANGED <<found_keypairs, mutex, completed, stop_log, config, calls, push_log, main_vars,
                   progress_vars>>

\* line 137: found_keypairs.lock()
WLock(w) ==
    /\ wpc[w] = "lock"
    /\ unlocked(mutex)
    /\ mutex' = WorkerThread(w)
    /\ wpc' = [wpc EXCEPT ![w] = "push"]
    /\ UNCHANGED <<found_keypairs, attempts, completed, stop_log, config, calls, push_log, poll_pairs, main_vars,
                   progress_vars, keypair, derived>>

\* line 140: the candidate is pushed only while the quantity is not reached
WBelow(w) ==
    /\ wpc[w] = "push"
    /\ wpc' = [wpc EXCEPT ![w] = IF below_quantity(found_keypairs, args.quantity)
                                  THEN "append" ELSE "unlock"]
    /\ UNCHANGED <<shared, config, calls, push_log, poll_pairs, main_vars, progress_vars,
                   keypair, derived>>

\* line 141: found.push(keypair), the candidate moves into the Vec
WPush(w) ==
    /\ wpc[w] = "append"
    /\ found_keypairs' = push(found_keypairs, keypair[w])
    /\ push_log' = push(push_log, [by |-> w, nth |-> derived[w]])
    /\ poll_pairs' = Held(attempts, Len(found_keypairs'))
    /\ keypair' = [keypair EXCEPT ![w] = NoKeyPair]
    /\ wpc' = [wpc EXCEPT ![w] = "store"]
    /\ UNCHANGED <<mutex, attempts, completed, stop_log, config, calls, main_vars,
                   progress_vars, derived>>

\* lines 144-146: after a push, completed.store(true) when the quantity is reached
WStore(w) ==
    /\ wpc[w] = "store"
    /\ IF reached_quantity(found_keypairs, args.quantity)
       THEN /\ completed' = store_value
            /\ stop_log' = Append(stop_log, [by |-> WorkerThread(w), at |-> attempts])
       ELSE UNCHANGED <<completed, stop_log>>
    /\ wpc' = [wpc EXCEPT ![w] = "unlock"]
    /\ UNCHANGED <<found_keypairs, mutex, attempts, config, calls, push_log, poll_pairs, main_vars, progress_vars,
                   keypair, derived>>

\* line 149: drop(found); the candidate, if still held, is dropped with the iteration
WUnlock(w) ==
    /\ wpc[w] = "unlock"
    /\ mutex' = Free
    /\ keypair' = [keypair EXCEPT ![w] = NoKeyPair]
    /\ wpc' = [wpc EXCEPT ![w] = "check"]
    /\ UNCHANGED <<found_keypairs, attempts, completed, stop_log, config, calls, push_log, poll_pairs, main_vars,
                   progress_vars, derived>>

\* ---------------------------------------------------------- specification

Next ==
    \/ MSpawn
    \/ MJoin
    \/ MStore
    \/ MLoad
    \/ MLock
    \/ MPrint
    \/ PCheck
    \/ PLoad
    \/ PLock
    \/ PLen
    \/ PMessage
    \/ \E w \in Workers : WStart(w)
    \/ \E w \in Workers : WCheck(w)
    \/ \E w \in Workers : WAttempt(w)
    \/ \E w \in Workers : WLock(w)
    \/ \E w \in Workers : WBelow(w)
    \/ \E w \in Workers : WPush(w)
    \/ \E w \in Workers : WStore(w)
    \/ \E w \in Workers : WUnlock(w)

Spec == Init /\ [][Next]_vars

\* Scheduling.  Every thread that can take a step eventually takes one, and
\* a closure waiting for the Mutex eventually gets it although the progress
\* thread takes it again and again, and a closure that keeps drawing
\* candidates eventually draws a matching one.
MainStep == MSpawn \/ MJoin \/ MStore \/ MLoad \/ MLock \/ MPrint
ProgressStep == PCheck \/ PLoad \/ PLock \/ PLen \/ PMessage
WorkerStep(w) ==
    /\ w \in Workers
    /\ WStart(w) \/ WCheck(w) \/ WAttempt(w) \/ WBelow(w) \/ WPush(w) \/ WStore(w)
          \/ WUnlock(w)
WorkerLock(w) == w \in Workers /\ WLock(w)
WorkerHit(w) == w \in Workers /\ WAttempt(w) /\ wpc'[w] = "lock"

Fairness ==
    /\ WF_vars(MainStep)
    /\ WF_vars(ProgressStep)
    /\ \A w \in 1..MaxThreads :
          /\ WF_vars(WorkerStep(w))
          /\ SF_vars(WorkerLock(w))
          /\ SF_vars(WorkerHit(w))

FairSpec == Spec /\ Fairness

WorkerPositions == {"pending", "check", "generate", "lock", "push", "append",
                    "store", "unlock", "done"}

TypeOK ==
    /\ [prefix |-> args.prefix, suffix |-> args.suffix] \in Criteria
    /\ args.quantity \in 0..MaxQuantity
    /\ num_threads \in 0..MaxThreads
    /\ found_keypairs \in Seq(KeyPairs)
    /\ mutex \in {Free, MainThread, ProgressThread} \cup {WorkerThread(w) : w \in Workers}
    /\ attempts \in Nat
    /\ completed \in BOOLEAN
    /\ mpc \in {"spawn", "for_each", "store", "load", "lock", "print", "exit"}
    /\ total_attempts \in Nat
    /\ ppc \in {"unspawned", "sleep", "load", "lock", "len", "msg", "exited"}
    /\ current_attempts \in Nat
    /\ found_count \in Nat
    /\ wpc \in [Workers -> WorkerPositions]
    /\ keypair \in [Workers -> KeyPairs \cup {NoKeyPair}]
    /\ derived \in [Workers -> Nat]
    /\ push_log \in Seq([by : Workers, nth : Nat])
    /\ poll_pairs \subseteq Nat \X Nat
    /\ call = NoCall
    /\ ret = NoCall

\* ------------------------------------------- the two functions on their own
\* generate_key_pair and matches_criteria touch no shared state.  CallSpec
\* calls each of them once on arguments drawn from bounded sets, with main
\* not started.

Letters == {"a", "A", "b"}

RECURSIVE TextsOf(_)
TextsOf(n) ==
    IF n = 0 THEN {<<>>}
    ELSE LET shorter == TextsOf(n - 1)
         IN  shorter \cup {Append(t, c) : t \in {u \in shorter : Len(u) = n - 1}, c \in Letters}

\* the texts of at most MaxText characters
Texts == TextsOf(MaxText)

\* the values of an Option<String> argument
Constraints == {None} \cup {Some(t) : t \in Texts}

\* the addresses handed to matches_criteria: "0x" and a body
Addresses == {<<"0", "x">> \o t : t \in Texts}

MatchCalls ==
    [fn : {"matches_criteria"}, address : Addresses, prefix : Constraints,
     suffix : Constraints]

\* The scalar, the serialized public key and its digest are drawn
\* independently: the curve multiplication and Keccak256 are library code.
GenerateCalls ==
    [fn : {"generate_key_pair"}, secret_key : SecretKeys,
     public_key_bytes : PublicKeys, public_key_hash : Digests]

CallInit ==
    /\ args = [prefix |-> None, suffix |-> None, quantity |-> 0]
    /\ num_threads = 0
    /\ found_keypairs = <<>>
    /\ mutex = Free
    /\ attempts = 0
    /\ completed = FALSE
    /\ mpc = "spawn"
    /\ total_attempts = 0
    /\ ppc = "unspawned"
    /\ current_attempts = 0
    /\ found_count = 0
    /\ wpc = [w \in Workers |-> "pending"]
    /\ keypair = [w \in Workers |-> NoKeyPair]
    /\ derived = [w \in Workers |-> 0]
    /\ stop_log = <<>>
    /\ push_log = <<>>
    /\ poll_pairs = {}
    /\ call \in MatchCalls \cup GenerateCalls
    /\ ret = NoCall

\* lines 52-68: matches_criteria returns
CallMatches ==
    /\ call.fn = "matches_criteria"
    /\ ret = NoCall
    /\ ret' = [fn |-> call.fn,
               value |-> matches_criteria(call.address, call.prefix, call.suffix)]
    /\ UNCHANGED <<shared, config, main_vars, progress_vars, worker_vars, push_log,
                   poll_pairs, call>>

\* lines 38-50: generate_key_pair returns; hashed is what it gave Keccak256
CallGenerate ==
    /\ call.fn = "generate_key_pair"
    /\ ret = NoCall
    /\ ret' = [fn |-> call.fn,
               hashed |-> digest_input(call.public_key_bytes),
               value |-> generate_key_pair(call.secret_key, call.public_key_hash)]
    /\ UNCHANGED <<shared, config, main_vars, progress_vars, worker_vars, push_log,
                   poll_pairs, call>>

CallNext == CallMatches \/ CallGenerate

CallSpec == CallInit /\ [][CallNext]_vars

\* ----------------------------------------------------------------- claims

RECURSIVE SumOver(_, _)
SumOver(f, S) ==
    IF S = {} THEN 0
    ELSE LET x == CHOOSE y \in S : TRUE IN f[x] + SumOver(f, S \ {x})

\* main is past the parallel loop
SearchFinished == mpc \in {"store", "load", "lock", "print", "exit"}

\* main has read the final attempt count and holds or has printed the final results
SearchReturned == mpc \in {"print", "exit"}

\* C1: the number of stored results never exceeds the quantity asked for, and
\* no length the progress thread reads for its message does either.
C1_ResultsWithinQuantity ==
    /\ Len(found_keypairs) <= args.quantity
    /\ ppc = "msg" => found_count <= args.quantity

\* C1 witness: a closure holds the lock with a matching candidate while the
\* quantity is already reached, and the progress thread has read the full length.
C1_Witness ==
    /\ args.quantity >= 1
    /\ \E w \in Workers : wpc[w] = "push" /\ Len(found_keypairs) = args.quantity
    /\ ppc = "msg"
    /\ found_count = args.quantity

\* C2: once main has the final results, they are exactly quantity many.
C2_ReturnsExactlyQuantity ==
    SearchReturned => Len(found_keypairs) = args.quantity

\* The same with at least one closure in the parallel loop.
C2_ReturnsQuantityWithWorkers ==
    (SearchReturned /\ num_threads >= 1) => Len(found_keypairs) = args.quantity

\* C3: every stored KeyPair satisfies the criteria: its address body (after
\* "0x") starts with the prefix and ends with the suffix, letter case ignored.
C3_StoredResultsMatch ==
    \A i \in 1..Len(found_keypairs) :
        LET a == found_keypairs[i].address
            p == args.prefix.value
            x == args.suffix.value
        IN  /\ args.prefix.is_some =>
                  /\ Len(p) <= Len(a) - 2
                  /\ \A j \in 1..Len(p) : LowerChar(a[2 + j]) = LowerChar(p[j])
            /\ args.suffix.is_some =>
                  /\ Len(x) <= Len(a) - 2
                  /\ \A j \in 1..Len(x) : LowerChar(a[Len(a) - Len(x) + j]) = LowerChar(x[j])

\* C3 witness: with criteria given, a closure has drawn a miss and a match is stored.
C3_Witness ==
    /\ args.prefix.is_some
    /\ args.suffix.is_some
    /\ Len(found_keypairs) >= 1
    /\ attempts > Len(found_keypairs)

\* C4: when every closure has returned, attempts is the sum of the numbers of
\* candidates the closures derived.
C4_NoLostIncrement ==
    for_each_finished(wpc) => attempts = SumOver(derived, Workers)

\* C4 witness: two closures have returned and each has derived a candidate.
C4_Witness ==
    /\ num_threads >= 2
    /\ for_each_finished(wpc)
    /\ \A w \in Workers : derived[w] >= 1

\* C5: main goes past the parallel loop only when every closure has returned,
\* and from then on no closure moves and neither the results nor attempts change.
C5_JoinBeforeRead ==
    /\ [](SearchFinished => for_each_finished(wpc))
    /\ [][SearchFinished =>
            /\ wpc' = wpc
            /\ derived' = derived
            /\ found_keypairs' = found_keypairs
            /\ attempts' = attempts]_vars

\* C5 witness: main has left after two closures ran.
C5_Witness ==
    /\ mpc = "exit"
    /\ num_threads >= 2
    /\ \A w \in Workers : derived[w] >= 1
    /\ total_attempts = attempts

\* C6: with at least one closure and quantity >= 1, under fair scheduling and
\* recurring matches, the flag is eventually set, every closure returns and
\* main leaves.
C6_Terminates ==
    (num_threads >= 1 /\ args.quantity >= 1) =>
        <>(completed /\ for_each_finished(wpc) /\ mpc = "exit")

\* C6 witness: two closures, quantity 2, a miss on the way, and main has left.
C6_Witness ==
    /\ num_threads >= 2
    /\ args.quantity >= 2
    /\ attempts > Len(found_keypairs)
    /\ completed
    /\ for_each_finished(wpc)
    /\ mpc = "exit"

\* a closure stored true after seeing found.len() >= quantity
ObservedFull == \E i \in 1..Len(stop_log) : stop_log[i].by # MainThread

\* C7: the flag is set if and only if a writer has seen the quantity reached,
\* and never while fewer than quantity results are stored.
C7_StopIffFull ==
    /\ completed <=> ObservedFull
    /\ completed => Len(found_keypairs) >= args.quantity

\* The same with at least one closure in the parallel loop.
C7_StopIffFullWithWorkers ==
    num_threads >= 1 =>
        /\ completed <=> ObservedFull
        /\ completed => Len(found_keypairs) = args.quantity

\* a closure is Running until it has returned
WorkerStates == [w \in Workers |-> IF wpc[w] = "done" THEN "Terminated" ELSE "Running"]

\* C8: the flag starts false, never goes from true to false, and a store of
\* true into a flag that is already true changes neither the results, nor
\* attempts, nor the state of any closure.
C8_StopMonotoneIdempotent ==
    /\ ~completed
    /\ [][completed => completed']_vars
    /\ [][(completed /\ stop_log' # stop_log) =>
            /\ completed'
            /\ found_keypairs' = found_keypairs
            /\ attempts' = attempts
            /\ WorkerStates' = WorkerStates]_vars

\* C8 witness: true has been stored twice, by a closure and then by main.
C8_Witness ==
    /\ Len(stop_log) = 2
    /\ stop_log[1].by # MainThread
    /\ stop_log[2].by = MainThread
    /\ completed

\* C9: once every closure has returned, attempts is at most its value at the
\* first store of true plus num_threads - 1.
C9_OverrunBounded ==
    (for_each_finished(wpc) /\ Len(stop_log) >= 1) =>
        attempts <= stop_log[1].at + (num_threads - 1)

\* The same with at least one closure in the parallel loop, at every moment
\* after the first store.
C9_OverrunBoundedWithWorkers ==
    (num_threads >= 1 /\ Len(stop_log) >= 1) =>
        attempts <= stop_log[1].at + (num_threads - 1)

\* no criteria, one closure, quantity 1
Degenerate ==
    /\ ~args.prefix.is_some
    /\ ~args.suffix.is_some
    /\ num_threads = 1
    /\ args.quantity = 1

\* C10: without criteria, with one closure and quantity 1, the first candidate
\* matches and is stored, no second one is derived, and main ends with one
\* attempt and one result.
C10_DegenerateOneAttempt ==
    Degenerate =>
        /\ attempts <= 1
        /\ (attempts = 1 /\ wpc[1] \in {"store", "unlock", "check", "done"}) =>
              Len(found_keypairs) = 1
        /\ SearchReturned =>
              /\ attempts = 1
              /\ total_attempts = 1
              /\ Len(found_keypairs) = 1

\* C10 witness: the degenerate run has ended.
C10_Witness ==
    /\ Degenerate
    /\ mpc = "exit"
    /\ Len(found_keypairs) = 1

\* The cap on matching candidates is never what stops a closure when quantity >= 1.
CapNeverBinds ==
    (args.quantity >= 1 /\ \E w \in Workers : wpc[w] = "generate") => MayDraw(TRUE)

\* C11: a run configured with no worker (num_threads = 0) or with nothing to
\* find (quantity = 0) is rejected on entry: no closure is taken up, no
\* candidate is derived, and main does not go on to return a result.
C11_ZeroConfigRejected ==
    (num_threads = 0 \/ args.quantity = 0) =>
        /\ \A w \in Workers : wpc[w] = "pending"
        /\ attempts = 0
        /\ ~SearchFinished

\* The two ways the code goes on with such a configuration, both reachable:
\* with no worker main returns an empty result, and with quantity 0 the
\* closures search on although nothing can be stored.
C11_EmptyReturn == num_threads = 0 /\ mpc = "exit" /\ found_keypairs = <<>>

C11_SearchesForNothing ==
    args.quantity = 0 /\ \E w \in Workers : derived[w] >= MaxAttempts

\* C12: the pair (current_attempts, found_count) the progress thread has
\* obtained in one poll is a pair the shared state held at one instant of that
\* poll, between the load of attempts and the read of the length.
C12_SnapshotConsistent ==
    ppc = "msg" => <<current_attempts, found_count>> \in poll_pairs

\* Each of the two values alone was held during the poll, the counter no
\* later than the length.
C12_EachValueHeld ==
    ppc = "msg" =>
        \E p \in poll_pairs, q \in poll_pairs :
            /\ p[1] = current_attempts
            /\ q[2] = found_count
            /\ p[1] <= q[1]
            /\ p[2] <= q[2]

\* A poll that shows more key pairs found than candidates derived: reachable.
C12_FoundWithoutAttempt == ppc = "msg" /\ found_count > current_attempts

\* The Mutex as main and the closures see it once the holds of the progress
\* thread are taken out.
LockOfSearch == IF mutex = ProgressThread THEN Free ELSE mutex

\* C13: the progress thread only observes.  Each of its steps (the load of
\* completed, the load of attempts, the lock and the read of the length)
\* leaves the stored key pairs, the attempt counter and the stop flag as they
\* are, and leaves main and every closure where they were; the lock it takes
\* it gives back itself, and no step of main or of a closure made while it
\* holds the lock touches the lock.  A run with its steps taken out is thus a
\* run of the program without the thread, with the same result and the same
\* total of attempts.
C13_ReporterObservational ==
    [][/\ ProgressStep =>
              /\ UNCHANGED <<found_keypairs, attempts, completed>>
              /\ UNCHANGED <<main_vars, worker_vars, config, stop_log, push_log>>
              /\ LockOfSearch' = LockOfSearch
       /\ (mutex = ProgressThread /\ ~ProgressStep) => mutex' = mutex]_vars

\* C13 witness: the progress thread holds the lock in the middle of the
\* search, a closure that has a matching candidate waits for it.
C13_Witness ==
    /\ ppc = "len"
    /\ mutex = ProgressThread
    /\ current_attempts >= 1
    /\ \E w \in Workers : wpc[w] = "lock"

\* Two characters that are the same letter or digit, whatever their case.
CasePairs == {{"a", "A"}, {"b", "B"}, {"c", "C"}, {"d", "D"}, {"e", "E"}, {"f", "F"}}
SameLetter(c, d) == c = d \/ {c, d} \in CasePairs

\* the text of an address after its first two characters, the "0x"
Body(address) == SubSeq(address, 3, Len(address))

BeginsWith(body, t) ==
    /\ Len(t) <= Len(body)
    /\ \A i \in 1..Len(t) : SameLetter(body[i], t[i])

FinishesWith(body, t) ==
    /\ Len(t) <= Len(body)
    /\ \A i \in 1..Len(t) : SameLetter(body[Len(body) - Len(t) + i], t[i])

\* an absent constraint, or one of no characters
Unconstrained(c) == ~c.is_some \/ c.value = <<>>

\* two constraints that differ in the case of their letters at most
SameButCase(c, d) ==
    /\ c.is_some = d.is_some
    /\ Len(c.value) = Len(d.value)
    /\ \A i \in 1..Len(c.value) : SameLetter(c.value[i], d.value[i])

\* C14: matches_criteria returns true exactly when the body of the address
\* begins with the prefix, if one is given, and ends with the suffix, if one
\* is given, letters compared without regard to case; a constraint that is
\* absent or empty holds of every address; and two criteria that differ only
\* in the case of their letters give the same result.
C14_MatchesCriteria ==
    ret.fn = "matches_criteria" =>
        LET body == Body(call.address)
            prefix_holds == call.prefix.is_some => BeginsWith(body, call.prefix.value)
            suffix_holds == call.suffix.is_some => FinishesWith(body, call.suffix.value)
        IN  /\ ret.value = (prefix_holds /\ suffix_holds)
            /\ Unconstrained(call.prefix) => ret.value = suffix_holds
            /\ Unconstrained(call.suffix) => ret.value = prefix_holds
            /\ \A p \in Constraints :
                  SameButCase(p, call.prefix) =>
                      \A s \in Constraints :
                          SameButCase(s, call.suffix) =>
                              matches_criteria(call.address, p, s) = ret.value

\* C14 witness: a call with both constraints given in a case other than the
\* address's has returned true.
C14_Witness ==
    /\ ret.fn = "matches_criteria"
    /\ call.address = <<"0", "x", "A", "a">>
    /\ call.prefix = Some(<<"a", "A">>)
    /\ call.suffix = Some(<<"A">>)
    /\ ret.value

\* the value of a lowercase hexadecimal digit
HexValue(c) == CHOOSE k \in 0..15 : HexDigits[k + 1] = c

\* the bytes of an address, and the characters of its text after "0x"
AddressBytes == HashLen - AddressOffset
AddressDigits == 2 * AddressBytes

\* C15: generate_key_pair returns an address of "0x" and exactly 40 lowercase
\* hexadecimal characters, which spell the low-order 20 bytes of the digest;
\* the digest is taken of the serialized public key without its leading
\* format byte; and the private key returned is the scalar that was drawn,
\* which is not zero.
C15_GenerateKeyPair ==
    ret.fn = "generate_key_pair" =>
        LET address == ret.value.address
            hash == call.public_key_hash
        IN  /\ Len(address) = 2 + AddressDigits
            /\ SubSeq(address, 1, 2) = <<"0", "x">>
            /\ \A i \in 3..Len(address) : \E k \in 1..16 : address[i] = HexDigits[k]
            /\ \A j \in 1..AddressBytes :
                  16 * HexValue(address[2 * j + 1]) + HexValue(address[2 * j + 2])
                      = hash[Len(hash) - AddressBytes + j]
            /\ Len(ret.hashed) = Len(call.public_key_bytes) - 1
            /\ \A i \in 1..Len(ret.hashed) : ret.hashed[i] = call.public_key_bytes[i + 1]
            /\ ret.value.private_key = call.secret_key
            /\ ret.value.private_key # 0

\* C15 witness: a key pair has been returned whose address begins with the
\* digits of the byte 171 and ends with those of the byte 0.
C15_Witness ==
    /\ ret.fn = "generate_key_pair"
    /\ call.public_key_hash = Digest(171, 0)
    /\ SubSeq(ret.value.address, 1, 4) = <<"0", "x", "a", "b">>
    /\ ret.value.address[Len(ret.value.address)] = "0"
    /\ ret.hashed[1] # FormatByte

\* The threads that are between taking the lock and giving it back: a
\* closure from line 137 to line 149, the progress thread within line 115,
\* main from line 163 to the end.
LockedSection == {"push", "append", "store", "unlock"}
Holders ==
    {WorkerThread(w) : w \in {v \in Workers : wpc[v] \in LockedSection}}
        \cup (IF ppc = "len" THEN {ProgressThread} ELSE {})
        \cup (IF mpc = "print" THEN {MainThread} ELSE {})

\* C16: the length check, the push and the decision to set the stop flag of
\* a closure are one critical section.  At most one thread is inside a
\* locked section at a time, and it is the one the Mutex names; while a
\* closure is inside, from its check of the length to its push and on to
\* the unlock, no other thread changes the stored key pairs, so the length
\* it checked still holds when it pushes.
C16_OneCriticalSection ==
    /\ [](/\ Cardinality(Holders) <= 1
          /\ Holders = (IF mutex = Free THEN {} ELSE {mutex})
          /\ \A w \in Workers :
                wpc[w] = "append" => Len(found_keypairs) < args.quantity)
    /\ [][\A w \in Workers :
            (wpc[w] \in LockedSection /\ found_keypairs' # found_keypairs) =>
                (wpc[w] = "append" /\ wpc'[w] = "store")]_vars

\* C16 witness: a closure has checked the length and is about to push, while
\* another closure with a matching candidate waits for the lock.
C16_Witness ==
    \E w \in Workers, v \in Workers :
        /\ wpc[w] = "append"
        /\ wpc[v] = "lock"
        /\ mutex = WorkerThread(w)
        /\ Len(found_keypairs) = args.quantity - 1

\* s is the beginning of t
IsPrefix(s, t) == Len(s) <= Len(t) /\ SubSeq(t, 1, Len(s)) = s

\* C17: the stored key pairs only grow at the end: each step leaves them as
\* they are or adds one key pair behind the ones stored before.  And the key
\* pairs one closure stored stand in the order in which this closure found
\* them: of two entries pushed by the same closure the earlier one in the
\* Vec is the earlier candidate of that closure.
C17_AppendOnlyInOrder ==
    /\ [][/\ IsPrefix(found_keypairs, found_keypairs')
          /\ Len(found_keypairs') <= Len(found_keypairs) + 1]_vars
    /\ [](/\ Len(push_log) = Len(found_keypairs)
          /\ \A i \in 1..Len(push_log), j \in 1..Len(push_log) :
                (i < j /\ push_log[i].by = push_log[j].by) =>
                    push_log[i].nth < push_log[j].nth)

\* C17 witness: one closure has stored two key pairs, the first and a later
\* one of its candidates.
C17_Witness ==
    /\ Len(found_keypairs) = 2
    /\ push_log[1].by = push_log[2].by
    /\ push_log[1].nth = 1
    /\ push_log[2].nth > 2

\* the key pairs closure w has pushed so far
PushedBy(w) == Cardinality({i \in 1..Len(push_log) : push_log[i].by = w})

\* C18: a closure is Running, waiting to start or at one of the positions of
\* its loop, or Terminated, holding no candidate, and nothing else.  It goes from Running
\* to Terminated only at the top of its loop, by the load of a stop
\* flag that is set; it never terminates while the flag is not set; and once
\* Terminated it stays so and derives no candidate, increments attempts and
\* pushes no more.
C18_RunningThenTerminated ==
    /\ [](\A w \in Workers :
            /\ wpc[w] \in WorkerPositions
            /\ WorkerStates[w] = "Terminated" => keypair[w] = NoKeyPair)
    /\ [][\A w \in Workers :
            /\ (WorkerStates[w] = "Running" /\ WorkerStates'[w] = "Terminated") =>
                  (wpc[w] = "check" /\ completed)
            /\ WorkerStates[w] = "Terminated" =>
                  /\ WorkerStates'[w] = "Terminated"
                  /\ derived'[w] = derived[w]
                  /\ keypair'[w] = keypair[w]
                  /\ PushedBy(w)' = PushedBy(w)]_vars

\* C18 witness: one closure has terminated after deriving candidates, while
\* another still holds a matching candidate it will not store.
C18_Witness ==
    \E w \in Workers, v \in Workers :
        /\ WorkerStates[w] = "Terminated"
        /\ derived[w] >= 1
        /\ wpc[v] = "lock"
        /\ completed

\* C19: whenever no thread holds the lock and the stored key pairs number
\* exactly quantity, with quantity at least 1, the stop flag is already set:
\* the closure that pushed the last one set the flag before it unlocked.
C19_FullAndUnlockedIsStopped ==
    (mutex = Free /\ args.quantity >= 1 /\ Len(found_keypairs) = args.quantity)
        => completed

\* C19 witness: the closure that filled the Vec has just unlocked, main is
\* still in the parallel loop and no closure has seen the flag yet.
C19_Witness ==
    /\ mutex = Free
    /\ args.quantity >= 1
    /\ Len(found_keypairs) = args.quantity
    /\ completed
    /\ mpc = "for_each"
    /\ \A w \in Workers : wpc[w] # "done"

\* C20: attempts is never below the number of key pairs stored, and no step
\* makes attempts smaller.
C20_AttemptsCoverResults ==
    /\ [](attempts >= Len(found_keypairs))
    /\ [][attempts' >= attempts]_vars

\* C20 witness: every candidate derived so far has been stored, and there
\* are two of them.
C20_Witness ==
    /\ Len(found_keypairs) = 2
    /\ attempts = Len(found_keypairs)

====
